---- MODULE Spec2Model ----
(***************************************************************************)
(* Model of the tennis-data point decoder (ShotSequence.from_code), of     *)
(* Dataset.turn_into_matches and of the memoizing average caches.          *)
(*                                                                         *)
(* Strings are sequences of one-character strings.  An optional value is   *)
(* a sequence of length at most one: None is << >>, Some(x) is << x >>.    *)
(***************************************************************************)
EXTENDS Integers, Sequences, FiniteSets, TLC

VARIABLES
    call,       \* the from_code / constructor call made, with its outcome
    frame,      \* the DataFrame handed to turn_into_matches
    gen,        \* state of the turn_into_matches generator
    cache,      \* tournament_averages and tour_averages of one Dataset
    threads,    \* per-thread position inside the two average methods
    computed    \* how many times each key's average has been computed

vars == <<call, frame, gen, cache, threads, computed>>

None == << >>
Some(x) == << x >>

\* ------------------------------------------------------------------ bounds

\* Longest first_code and longest second_code enumerated.
MaxFirstLen == 2
MaxSecondLen == 1

\* Most rows of a DataFrame, and most sets of a score string.
MaxRows == 3
MaxSets == 2

\* Most calls one thread makes to the average methods.
MaxCalls == 2

\* ------------------------------------------------------------- vocabulary

\* The characters str.strip() removes (those str.isspace() holds of).  A
\* character that has no escape in a string is written by its code point.
Whitespace ==
    {" ", "\t", "\n", "\r", "\f", "U+000B", "U+001C", "U+001D", "U+001E",
     "U+001F", "U+0085", "U+00A0", "U+1680", "U+2000", "U+2001", "U+2002",
     "U+2003", "U+2004", "U+2005", "U+2006", "U+2007", "U+2008", "U+2009",
     "U+200A", "U+2028", "U+2029", "U+202F", "U+205F", "U+3000"}

\* The characters codes are drawn from: three whitespace characters, the
\* four shortcut letters, two direction digits, the fault letters, an
\* outcome marker and a shot letter.
Alphabet ==
    {" ", "\t", "\n", "S", "R", "P", "Q", "0", "4", "n", "d", "*", "f"}

\* [x.value for x in FaultEnum].  The table is not part of the decoder: it
\* has two letters of its own and one, 'P', that is also a shortcut letter,
\* so that the order of the decoder's tests decides what a bare 'P' means.
FaultEnumValues == {"n", "d", "P"}

ServeDirections == {"0", "4"}
AceMarker == "*"
UnreturnableMarker == "#"
ShotTypes == {"f"}
ShotDirections == {"4"}
ShotOutcomes == {"*"}

Players == [server |-> "A", returner |-> "B"]

\* ---------------------------------------------------------------- strings

RECURSIVE lstrip(_)
lstrip(s) ==
    IF s # << >> /\ Head(s) \in Whitespace THEN lstrip(Tail(s)) ELSE s

RECURSIVE rstrip(_)
rstrip(s) ==
    IF s # << >> /\ s[Len(s)] \in Whitespace
    THEN rstrip(SubSeq(s, 1, Len(s) - 1))
    ELSE s

\* str.strip()
strip(s) == rstrip(lstrip(s))

\* ----------------------------------------------------------- call results

Return(v) == [kind |-> "return", exc |-> "", msg |-> << >>, value |-> Some(v)]
Raise(e, m) == [kind |-> "raise", exc |-> e, msg |-> m, value |-> None]

\* What from_code did: its outcome, the calls it made to the serve and rally
\* decoders (in order, with their arguments) and whether it read second_code.
Traced(outcome, serve_calls, rally_calls, second_read) ==
    [outcome |-> outcome, serve_calls |-> serve_calls,
     rally_calls |-> rally_calls, second_read |-> second_read]

\* ------------------------------------------------------------------ Serve

\* Serve.from_code: an optional leading direction digit, then a fault
\* letter (fault), an ace or unreturnable marker (point over) or anything
\* else (returned in play, the rest is the rally's code).
Serve_from_code(code, server, is_first) ==
    IF code = << >>
    THEN Raise("CodeParsingException", code)
    ELSE LET hasDir == Head(code) \in ServeDirections
             direction == IF hasDir THEN Head(code) ELSE "0"
             rest == IF hasDir THEN Tail(code) ELSE code
             lead == IF rest = << >> THEN "" ELSE Head(rest)
             outcome == IF lead \in FaultEnumValues THEN "fault"
                        ELSE IF lead = AceMarker THEN "ace"
                        ELSE IF lead = UnreturnableMarker THEN "unreturnable"
                        ELSE "in_play"
             remaining == IF outcome = "in_play" THEN rest ELSE Tail(rest)
         IN Return([serve |-> [server |-> server,
                               is_first |-> is_first,
                               raw_code |-> code,
                               direction |-> direction,
                               fault_kind |-> IF outcome = "fault"
                                              THEN lead ELSE "none",
                               outcome |-> outcome],
                    remaining |-> remaining])

\* Serve.was_fault
was_fault(serve) == serve.fault_kind # "none"

\* Serve.had_rally
had_rally(serve) == serve.outcome = "in_play"

\* ------------------------------------------------------------------ Rally

ShotModifiers == ShotDirections \cup ShotOutcomes

RECURSIVE ModifierCount(_)
ModifierCount(s) ==
    IF s # << >> /\ Head(s) \in ShotModifiers
    THEN 1 + ModifierCount(Tail(s))
    ELSE 0

LastIn(s, set, default) ==
    LET hits == {i \in 1..Len(s) : s[i] \in set}
    IN IF hits = {} THEN default
       ELSE s[CHOOSE i \in hits : \A j \in hits : j <= i]

\* The shots of a rally code; ok is FALSE when a token is not a shot or a
\* terminal outcome is followed by more shots.
RECURSIVE Shots(_, _, _)
Shots(s, hitter, other) ==
    IF s = << >> THEN [ok |-> TRUE, shots |-> << >>]
    ELSE IF Head(s) \notin ShotTypes THEN [ok |-> FALSE, shots |-> << >>]
    ELSE LET n == ModifierCount(Tail(s))
             mods == SubSeq(s, 2, n + 1)
             rest == SubSeq(s, n + 2, Len(s))
             shot == [player |-> hitter,
                      shot_type |-> Head(s),
                      direction |-> LastIn(mods, ShotDirections, "unknown"),
                      outcome |-> LastIn(mods, ShotOutcomes, "in_play")]
             tail == Shots(rest, other, hitter)
         IN IF (shot.outcome # "in_play" /\ rest # << >>) \/ ~tail.ok
            THEN [ok |-> FALSE, shots |-> << >>]
            ELSE [ok |-> TRUE, shots |-> << shot >> \o tail.shots]

\* Rally.from_code: one Shot per token, the returner hitting first, until
\* the code is exhausted (no Shot for an empty code); a code that is not
\* wholly made of tokens is a parse failure.
Rally_from_code(code, server, returner) ==
    LET r == Shots(code, returner, server)
    IN IF ~r.ok
       THEN Raise("CodeParsingException", code)
       ELSE Return([shots |-> r.shots])

\* ----------------------------------------------------------- ShotSequence

\* The constructor without its assertion.
ShotSequence_unchecked(server, returner, server_won, first_serve, second_serve, rally, not_coded, server_lost_outright, server_won_outright) ==
    Return([server |-> server,
            returner |-> returner,
            server_won |-> server_won,
            rally |-> rally,
            not_coded |-> not_coded,
            first_serve |-> first_serve,
            second_serve |-> second_serve,
            server_lost_outright |-> server_lost_outright,
            server_won_outright |-> server_won_outright])

\* ShotSequence.__init__: the assertion, then the object.
ShotSequence(server, returner, server_won, first_serve, second_serve, rally, not_coded, server_lost_outright, server_won_outright) ==
    IF ~(not_coded \/ server_lost_outright \/ server_won_outright
         \/ first_serve # None)
    THEN Raise("AssertionError", << >>)
    ELSE Return([server |-> server,
                 returner |-> returner,
                 server_won |-> server_won,
                 rally |-> rally,
                 not_coded |-> not_coded,
                 first_serve |-> first_serve,
                 second_serve |-> second_serve,
                 server_lost_outright |-> server_lost_outright,
                 server_won_outright |-> server_won_outright])

ShortcutLetters == {"S", "R", "P", "Q"}

\* The shortcut returns with 'P' and 'Q' exchanged.
Shortcut_swapped(server, returner, server_won, first_code) ==
    ShotSequence(server, returner, server_won, None, None, None,
                 first_code[1] \in {"S", "R"},
                 first_code[1] = "Q",
                 first_code[1] = "P")

\* from_code, the single-character returns: 'S' or 'R', 'P', 'Q'.
Shortcut(server, returner, server_won, first_code) ==
    ShotSequence(server, returner, server_won, None, None, None,
                 first_code[1] \in {"S", "R"},
                 first_code[1] = "P",
                 first_code[1] = "Q")

\* from_code, a bare fault letter: the unknown direction is put before it.
WithUnknownDirection(first_code) == << "0" >> \o first_code

\* The single-character branch without its final else: a character that is
\* neither a shortcut nor a fault letter goes on to the serve decoder.
SingleCharacter_fallthrough(server, returner, server_won, first_code) ==
    IF Len(first_code) = 1 /\ first_code[1] \in ShortcutLetters
    THEN [done |-> TRUE,
          outcome |-> Shortcut(server, returner, server_won, first_code),
          code |-> first_code]
    ELSE IF Len(first_code) = 1 /\ first_code[1] \in FaultEnumValues
    THEN [done |-> FALSE, outcome |-> Raise("", << >>),
          code |-> WithUnknownDirection(first_code)]
    ELSE [done |-> FALSE, outcome |-> Raise("", << >>), code |-> first_code]

\* The single-character branch with the fault letters tested before the
\* shortcut letters.
SingleCharacter_faults_first(server, returner, server_won, first_code) ==
    IF Len(first_code) = 1
    THEN IF first_code[1] \in FaultEnumValues
         THEN [done |-> FALSE, outcome |-> Raise("", << >>),
               code |-> WithUnknownDirection(first_code)]
         ELSE IF first_code[1] \in ShortcutLetters
         THEN [done |-> TRUE,
               outcome |-> Shortcut(server, returner, server_won, first_code),
               code |-> first_code]
         ELSE [done |-> TRUE,
               outcome |-> Raise("CodeParsingException", first_code),
               code |-> first_code]
    ELSE [done |-> FALSE, outcome |-> Raise("", << >>), code |-> first_code]

\* from_code, the single-character branch: a shortcut returns, a fault
\* letter is normalized, anything else is unknown.  A longer (or empty) code
\* goes on unchanged.
SingleCharacter(server, returner, server_won, first_code) ==
    IF Len(first_code) = 1
    THEN IF first_code[1] \in ShortcutLetters
         THEN [done |-> TRUE,
               outcome |-> Shortcut(server, returner, server_won, first_code),
               code |-> first_code]
         ELSE IF first_code[1] \in FaultEnumValues
         THEN [done |-> FALSE, outcome |-> Raise("", << >>),
               code |-> WithUnknownDirection(first_code)]
         ELSE [done |-> TRUE,
               outcome |-> Raise("CodeParsingException", first_code),
               code |-> first_code]
    ELSE [done |-> FALSE, outcome |-> Raise("", << >>), code |-> first_code]

\* from_code, the rally of the serve that ended the serving: decoded from
\* the code that serve left when the serve had a rally.
RallyAfter(serve, remaining_code, server, returner) ==
    IF had_rally(serve)
    THEN LET r == Rally_from_code(remaining_code, server, returner)
         IN [raised |-> r.kind = "raise", outcome |-> r, rally |-> r.value,
             rally_calls |-> << remaining_code >>]
    ELSE [raised |-> FALSE, outcome |-> Return(None), rally |-> None,
          rally_calls |-> << >>]

\* The second code never decoded.
NeedsSecondServe_never(first_serve) == FALSE

\* from_code, whether the second code is decoded at all.
NeedsSecondServe(first_serve) == was_fault(first_serve)

\* from_code from "Parse first serve" on.
ParseServes(server, returner, server_won, first_code, second_code) ==
    LET first == Serve_from_code(first_code, server, TRUE)
        call1 == << [code |-> first_code, is_first |-> TRUE] >>
    IN
    IF first.kind = "raise" THEN Traced(first, call1, << >>, FALSE)
    ELSE
    LET first_serve == first.value[1].serve IN
    IF NeedsSecondServe(first_serve)
    THEN IF second_code = None
         THEN Traced(Raise("AttributeError", << "strip" >>),
                     call1, << >>, TRUE)
         ELSE
         LET stripped == strip(second_code[1])
             second == Serve_from_code(stripped, server, FALSE)
             call2 == call1 \o << [code |-> stripped, is_first |-> FALSE] >>
         IN
         IF second.kind = "raise" THEN Traced(second, call2, << >>, TRUE)
         ELSE
         LET second_serve == second.value[1].serve
             r == RallyAfter(second_serve, second.value[1].remaining,
                             server, returner)
         IN
         IF r.raised
         THEN Traced(r.outcome, call2, r.rally_calls, TRUE)
         ELSE Traced(ShotSequence(server, returner, server_won,
                                  Some(first_serve), Some(second_serve),
                                  r.rally,
                                  FALSE, FALSE, FALSE),
                     call2, r.rally_calls, TRUE)
    ELSE
    LET r == RallyAfter(first_serve, first.value[1].remaining,
                        server, returner)
    IN
    IF r.raised
    THEN Traced(r.outcome, call1, r.rally_calls, FALSE)
    ELSE Traced(ShotSequence(server, returner, server_won,
                             Some(first_serve), None,
                             r.rally,
                             FALSE, FALSE, FALSE),
                call1, r.rally_calls, FALSE)

\* ShotSequence.from_code.  first_code and second_code are optional
\* strings (None or a string).
from_code(server, returner, server_won, first_code, second_code) ==
    IF first_code = None
    THEN Traced(Raise("AttributeError", << "strip" >>), << >>, << >>, FALSE)
    ELSE
    LET single == SingleCharacter(server, returner, server_won,
                                  strip(first_code[1]))
    IN IF single.done
       THEN Traced(single.outcome, << >>, << >>, FALSE)
       ELSE ParseServes(server, returner, server_won, single.code,
                        second_code)

\* ------------------------------------------------- the decoder, as called

Codes(n) == UNION {[1..k -> Alphabet] : k \in 0..n}
OptionalCodes(n) == {None} \cup {Some(c) : c \in Codes(n)}

\* A first serve a caller may hand to the constructor.
AnyServe == Serve_from_code(<< "4" >>, Players.server, TRUE).value[1].serve

NoCall == [op |-> "none", first_code |-> None, second_code |-> None,
           server_won |-> FALSE, result |-> Traced(Raise("", << >>),
                                                    << >>, << >>, FALSE)]

DecoderIdle == call = NoCall

\* ShotSequence.from_code(server, returner, server_won, first_code,
\* second_code) is called and returns or raises.
CallFromCode ==
    /\ DecoderIdle
    /\ \E first_code \in OptionalCodes(MaxFirstLen),
          second_code \in OptionalCodes(MaxSecondLen),
          server_won \in BOOLEAN :
          call' = [op |-> "from_code",
                   first_code |-> first_code,
                   second_code |-> second_code,
                   server_won |-> server_won,
                   result |-> from_code(Players.server, Players.returner,
                                        server_won, first_code, second_code)]
    /\ UNCHANGED <<frame, gen, cache, threads, computed>>

\* ShotSequence(...) is constructed directly from explicit fields.
Construct ==
    /\ DecoderIdle
    /\ \E first_serve \in {None, Some(AnyServe)},
          second_serve \in {None, Some(AnyServe)},
          not_coded \in BOOLEAN, server_lost_outright \in BOOLEAN,
          server_won_outright \in BOOLEAN, server_won \in BOOLEAN :
          call' = [op |-> "init",
                   first_code |-> None,
                   second_code |-> None,
                   server_won |-> server_won,
                   result |-> Traced(
                       ShotSequence(Players.server, Players.returner,
                                    server_won, first_serve, second_serve,
                                    None, not_coded, server_lost_outright,
                                    server_won_outright),
                       << >>, << >>, FALSE),
                   init_args |-> [first_serve |-> first_serve,
                                  not_coded |-> not_coded,
                                  server_lost_outright |->
                                      server_lost_outright,
                                  server_won_outright |->
                                      server_won_outright]]
    /\ UNCHANGED <<frame, gen, cache, threads, computed>>

\* ------------------------------------------------- turn_into_matches

\* The words of a score string: a well-formed set or something else.
SetTokens == {"6-4", "x"}
Scores == UNION {[1..k -> SetTokens] : k \in 0..MaxSets}

\* ParsedStringScore(score, winner, loser): the sets of the score, or
\* BadFormattingException when a word is not a set.
ParsedStringScore(score) ==
    IF \E i \in 1..Len(score) : score[i] # "6-4"
    THEN Raise("BadFormattingException", score)
    ELSE Return([sets |-> score])

OptionalColumns == {"surface", "odds_winner", "winner_odds", "loser_odds"}

\* What calculate_stats does on a row, where the class defines it.
StatsOutcomes == {"returns", "raises"}

\* DataFrames of at most n rows: the columns every frame has are left out;
\* the row at position i has winner i.
Frames(n) ==
    {[columns |-> c,
      rows |-> [i \in 1..Len(r) |-> [winner |-> i, score |-> r[i][1],
                                     stats |-> r[i][2]]]] :
        c \in SUBSET OptionalColumns,
        r \in UNION {[1..k -> Scores \X StatsOutcomes] : k \in 0..n}}

\* The class of self: Dataset itself, which defines no calculate_stats, or
\* a subclass that defines it.
DatasetClasses == {"Dataset", "subclass"}

\* self.calculate_stats(row['winner'], row['loser'], row)
calculate_stats(cls, row) ==
    IF cls = "Dataset" THEN Raise("AttributeError", << "calculate_stats" >>)
    ELSE IF row.stats = "raises" THEN Raise("Exception", << >>)
    ELSE Return("stats")

\* The body of the loop of turn_into_matches for one row: "continue",
\* an exception, or the match to yield.
RowStep(cls, columns, row) ==
    LET stats == calculate_stats(cls, row)
        score == ParsedStringScore(row.score)
    IN
    IF stats.kind = "raise"
    THEN [kind |-> "raise", exc |-> stats.exc, key |-> "calculate_stats"]
    ELSE IF score.kind = "raise" THEN [kind |-> "continue"]
    ELSE IF Len(score.value[1].sets) < 2 THEN [kind |-> "continue"]
    ELSE IF "odds_winner" \in columns /\ "winner_odds" \notin columns
    THEN [kind |-> "raise", exc |-> "KeyError", key |-> "winner_odds"]
    ELSE IF "odds_winner" \in columns /\ "loser_odds" \notin columns
    THEN [kind |-> "raise", exc |-> "KeyError", key |-> "loser_odds"]
    ELSE [kind |-> "yield",
          match |-> [p1 |-> row.winner,
                     winner |-> row.winner,
                     stats |-> stats.value[1],
                     surface |-> IF "surface" \notin columns
                                 THEN None ELSE Some("surface"),
                     odds |-> IF "odds_winner" \in columns
                              THEN Some("odds") ELSE None,
                     score |-> score.value[1]]]

\* The generator resumed at row i: it runs to its next yield, to the end
\* of the rows or to an exception.
RECURSIVE Resume(_, _, _)
Resume(cls, df, i) ==
    IF i > Len(df.rows) THEN [kind |-> "stop", i |-> i]
    ELSE LET r == RowStep(cls, df.columns, df.rows[i])
         IN IF r.kind = "continue" THEN Resume(cls, df, i + 1)
            ELSE IF r.kind = "raise"
            THEN [kind |-> "raise", i |-> i, exc |-> r.exc]
            ELSE [kind |-> "yield", i |-> i, match |-> r.match]

NoGenerator ==
    [pc |-> "none", self |-> "Dataset", i |-> 0, yielded |-> << >>,
     exc |-> ""]

\* self.turn_into_matches(df) is called: a generator, not yet run.
turn_into_matches ==
    /\ gen = NoGenerator
    /\ \E df \in Frames(MaxRows), cls \in DatasetClasses :
          /\ frame' = df
          /\ gen' = [pc |-> "suspended", self |-> cls, i |-> 1,
                     yielded |-> << >>, exc |-> ""]
    /\ UNCHANGED <<call, cache, threads, computed>>

\* next() on the generator.
NextMatch ==
    /\ gen.pc = "suspended"
    /\ LET r == Resume(gen.self, frame, gen.i) IN
          gen' = IF r.kind = "yield"
                 THEN [gen EXCEPT !.i = r.i + 1,
                                  !.yielded = Append(@, r.match)]
                 ELSE IF r.kind = "stop"
                 THEN [gen EXCEPT !.pc = "exhausted", !.i = r.i]
                 ELSE [gen EXCEPT !.pc = "raised", !.i = r.i,
                                  !.exc = r.exc]
    /\ UNCHANGED <<call, frame, cache, threads, computed>>

\* ------------------------------------------------- the average caches

Threads == {1, 2}

\* The frame a subclass's get_stats_df() returns: its matches, with the
\* percentages of serve points won.  A date is a year and a day of that year.
StatsRows ==
    << [tournament_name |-> "t1", start_date |-> [year |-> 1, day |-> 10],
        winner_serve_points_won_pct |-> 70, loser_serve_points_won_pct |-> 60],
       [tournament_name |-> "t1", start_date |-> [year |-> 2, day |-> 20],
        winner_serve_points_won_pct |-> 66, loser_serve_points_won_pct |-> 58],
       [tournament_name |-> "t2", start_date |-> [year |-> 1, day |-> 30],
        winner_serve_points_won_pct |-> 68, loser_serve_points_won_pct |-> 56],
       [tournament_name |-> "t2", start_date |-> [year |-> 2, day |-> 366],
        winner_serve_points_won_pct |-> 64, loser_serve_points_won_pct |-> 62] >>

\* self.get_stats_df(): Dataset's own method is "pass" and returns None; a
\* subclass overrides it and returns its frame.
get_stats_df(cls) == IF cls = "Dataset" THEN None ELSE Some(StatsRows)

Before(d, e) == d.year < e.year \/ (d.year = e.year /\ d.day < e.day)

RECURSIVE SumOver(_, _)
SumOver(rows, idx) ==
    IF idx = {} THEN 0
    ELSE LET i == CHOOSE j \in idx : TRUE
         IN rows[i].winner_serve_points_won_pct
            + rows[i].loser_serve_points_won_pct + SumOver(rows, idx \ {i})

\* The mean of (winner pct + loser pct) / 2 over the rows chosen, as the
\* fraction << numerator, denominator >>; << 0, 0 >> is NaN (no row).
MeanOf(rows, idx) == << SumOver(rows, idx), 2 * Cardinality(idx) >>

\* get_tournament_serve_average, from get_stats_df() to the mean: an
\* AttributeError when get_stats_df() returned None (None.set_index), a
\* KeyError when no match has the tournament's name (.loc), else the mean
\* over the matches of that name strictly between the dates.
TournamentMean(cls, key) ==
    LET full_df == get_stats_df(cls) IN
    IF full_df = None THEN Raise("AttributeError", << "set_index" >>)
    ELSE LET rows == full_df[1] IN
    IF \A i \in 1..Len(rows) : rows[i].tournament_name # key[1]
    THEN Raise("KeyError", << key[1] >>)
    ELSE Return(MeanOf(rows, {i \in 1..Len(rows) :
              /\ rows[i].tournament_name = key[1]
              /\ key[2] # None => Before(key[2][1], rows[i].start_date)
              /\ key[3] # None => Before(rows[i].start_date, key[3][1])}))

\* calculate_tour_average, from get_stats_df() to the mean: an
\* AttributeError when get_stats_df() returned None (None.set_index), else
\* the mean over the matches from 1 January of the year to 364 days later.
TourMean(cls, year) ==
    LET subset == get_stats_df(cls) IN
    IF subset = None THEN Raise("AttributeError", << "set_index" >>)
    ELSE LET rows == subset[1] IN
    Return(MeanOf(rows, {i \in 1..Len(rows) :
              /\ rows[i].start_date.year = year
              /\ rows[i].start_date.day <= 1 + 364}))

\* key = (tournament_name, min_date, max_date)
TournamentKeys ==
    {<< "t1", None, None >>,
     << "t1", Some([year |-> 1, day |-> 10]), None >>,
     << "t3", None, None >>}
Years == {1, 2}

\* The Dataset the threads share, before it is constructed.
NoDataset ==
    [self |-> "none",
     tournament_averages |-> [k \in TournamentKeys |-> None],
     tour_averages |-> [y \in Years |-> None]]

\* Dataset.__init__, of Dataset itself or of a subclass: both caches empty.
DatasetInit ==
    /\ cache = NoDataset
    /\ \E cls \in DatasetClasses : cache' = [NoDataset EXCEPT !.self = cls]
    /\ UNCHANGED <<call, frame, gen, threads, computed>>

IdleThread == [pc |-> "idle", key |-> << >>, calls |-> 0, returned |-> None,
               found |-> FALSE, exc |-> ""]

\* get_tournament_serve_average(tournament_name, min_date, max_date) is
\* entered by thread t.
TournamentCall(t) ==
    /\ cache.self \in DatasetClasses
    /\ threads[t].pc = "idle"
    /\ threads[t].calls < MaxCalls
    /\ \E key \in TournamentKeys :
          threads' = [threads EXCEPT ![t] =
                        [pc |-> "tournament_check", key |-> key,
                         calls |-> @.calls + 1, returned |-> None,
                         found |-> FALSE, exc |-> ""]]
    /\ UNCHANGED <<call, frame, gen, cache, computed>>

\* if key in self.tournament_averages: return self.tournament_averages[key]
TournamentCheck(t) ==
    /\ threads[t].pc = "tournament_check"
    /\ threads' = [threads EXCEPT ![t] =
          IF cache.tournament_averages[threads[t].key] # None
          THEN [@ EXCEPT !.pc = "idle", !.found = TRUE,
                         !.returned =
                             cache.tournament_averages[threads[t].key]]
          ELSE [@ EXCEPT !.pc = "tournament_compute"]]
    /\ UNCHANGED <<call, frame, gen, cache, computed>>

\* get_stats_df() is indexed (an AttributeError ends the call when it
\* returned None), the tournament's matches are selected (a KeyError ends
\* the call when there is none), filtered by date, and the averages are
\* computed.
TournamentCompute(t) ==
    /\ threads[t].pc = "tournament_compute"
    /\ IF TournamentMean(cache.self, threads[t].key).kind = "raise"
       THEN /\ threads' = [threads EXCEPT ![t].pc = "idle",
                  ![t].exc = TournamentMean(cache.self, threads[t].key).exc]
            /\ UNCHANGED computed
       ELSE /\ threads' = [threads EXCEPT ![t].pc = "tournament_store"]
            /\ computed' = [computed EXCEPT
                              !.tournament_averages[threads[t].key] = @ + 1]
    /\ UNCHANGED <<call, frame, gen, cache>>

\* self.tournament_averages[key] = averages.mean(); return averages.mean()
TournamentStore(t) ==
    /\ threads[t].pc = "tournament_store"
    /\ cache' = [cache EXCEPT !.tournament_averages[threads[t].key] =
                                 TournamentMean(cache.self, threads[t].key).value]
    /\ threads' = [threads EXCEPT ![t].pc = "idle",
                      ![t].returned = TournamentMean(cache.self, threads[t].key).value]
    /\ UNCHANGED <<call, frame, gen, computed>>

\* calculate_tour_average(year) is entered by thread t.
TourCall(t) ==
    /\ cache.self \in DatasetClasses
    /\ threads[t].pc = "idle"
    /\ threads[t].calls < MaxCalls
    /\ \E year \in Years :
          threads' = [threads EXCEPT ![t] =
                        [pc |-> "tour_check", key |-> << year >>,
                         calls |-> @.calls + 1, returned |-> None,
                         found |-> FALSE, exc |-> ""]]
    /\ UNCHANGED <<call, frame, gen, cache, computed>>

\* if year in self.tour_averages: return self.tour_averages[year]
TourCheck(t) ==
    /\ threads[t].pc = "tour_check"
    /\ threads' = [threads EXCEPT ![t] =
          IF cache.tour_averages[threads[t].key[1]] # None
          THEN [@ EXCEPT !.pc = "idle", !.found = TRUE,
                         !.returned = cache.tour_averages[threads[t].key[1]]]
          ELSE [@ EXCEPT !.pc = "tour_compute"]]
    /\ UNCHANGED <<call, frame, gen, cache, computed>>

\* get_stats_df() is indexed (an AttributeError ends the call when it
\* returned None), the year's matches are selected and the averages are
\* computed.
TourCompute(t) ==
    /\ threads[t].pc = "tour_compute"
    /\ IF TourMean(cache.self, threads[t].key[1]).kind = "raise"
       THEN /\ threads' = [threads EXCEPT ![t].pc = "idle",
                  ![t].exc = TourMean(cache.self, threads[t].key[1]).exc]
            /\ UNCHANGED computed
       ELSE /\ threads' = [threads EXCEPT ![t].pc = "tour_store"]
            /\ computed' = [computed EXCEPT
                              !.tour_averages[threads[t].key[1]] = @ + 1]
    /\ UNCHANGED <<call, frame, gen, cache>>

\* self.tour_averages[year] = result; return result
TourStore(t) ==
    /\ threads[t].pc = "tour_store"
    /\ cache' = [cache EXCEPT !.tour_averages[threads[t].key[1]] =
                                 TourMean(cache.self, threads[t].key[1]).value]
    /\ threads' = [threads EXCEPT ![t].pc = "idle",
                      ![t].returned = TourMean(cache.self, threads[t].key[1]).value]
    /\ UNCHANGED <<call, frame, gen, computed>>

Init ==
    /\ call = NoCall
    /\ frame = [columns |-> {}, rows |-> << >>]
    /\ gen = NoGenerator
    /\ cache = NoDataset
    /\ threads = [t \in Threads |-> IdleThread]
    /\ computed = [tournament_averages |-> [k \in TournamentKeys |-> 0],
                   tour_averages |-> [y \in Years |-> 0]]

Next == CallFromCode \/ Construct

Spec == Init /\ [][Next]_vars

NextMatches == turn_into_matches \/ NextMatch

SpecMatches == Init /\ [][NextMatches]_vars

NextCache ==
    \/ DatasetInit
    \/ \E t \in Threads :
        \/ TournamentCall(t)
        \/ TournamentCheck(t)
        \/ TournamentCompute(t)
        \/ TournamentStore(t)
        \/ TourCall(t)
        \/ TourCheck(t)
        \/ TourCompute(t)
        \/ TourStore(t)

SpecCache == Init /\ [][NextCache]_vars

\* ------------------------------------------------- the decoder's claims

Decoded == call.op = "from_code"
Outcome == call.result.outcome
Returned == Outcome.kind = "return"
Sequence == Outcome.value[1]

\* The stripped first code of the from_code call made (a string was given).
FirstCode == strip(call.first_code[1])
SingleChar == Decoded /\ call.first_code # None /\ Len(FirstCode) = 1

FullyCoded == Decoded /\ Returned /\ Sequence.first_serve # None

\* The serve that ended the serving of a fully coded point.
TerminatingServe ==
    IF Sequence.second_serve # None
    THEN Sequence.second_serve[1]
    ELSE Sequence.first_serve[1]

\* C1: a first code that strips to 'S', 'R', 'P' or 'Q' returns the fixed
\* shape of that letter, with no serve and no rally, whatever the second
\* code is; the second code is not read and no decoder is called.
C1_ShortcutShape ==
    (SingleChar /\ FirstCode[1] \in {"S", "R", "P", "Q"}) =>
        /\ Outcome = Return([server |-> Players.server,
                             returner |-> Players.returner,
                             server_won |-> call.server_won,
                             rally |-> None,
                             not_coded |-> FirstCode[1] \in {"S", "R"},
                             first_serve |-> None,
                             second_serve |-> None,
                             server_lost_outright |-> FirstCode[1] = "P",
                             server_won_outright |-> FirstCode[1] = "Q"])
        /\ ~call.result.second_read
        /\ call.result.serve_calls = << >>
        /\ call.result.rally_calls = << >>

C1_Witness ==
    /\ SingleChar
    /\ FirstCode = << "P" >>
    /\ call.first_code[1] = << "\t", "P" >>
    /\ call.second_code = Some(<< "n" >>)
    /\ Returned
    /\ Sequence.server_lost_outright

\* C2: a fully coded result has a second serve exactly when its first serve
\* was a fault, and that second serve was decoded with is_first = False.
C2_SecondServeIffFault ==
    FullyCoded =>
        /\ Sequence.second_serve # None <=> was_fault(Sequence.first_serve[1])
        /\ Sequence.second_serve # None =>
              /\ ~Sequence.second_serve[1].is_first
              /\ Len(call.result.serve_calls) = 2
              /\ ~call.result.serve_calls[2].is_first
        /\ Sequence.second_serve = None => Len(call.result.serve_calls) = 1

C2_Witness ==
    /\ FullyCoded
    /\ was_fault(Sequence.first_serve[1])
    /\ Sequence.second_serve # None
    /\ Sequence.second_serve[1].raw_code = << "*" >>

\* C3 (as claimed): in a fully coded result the terminating serve had a
\* rally exactly when the result has a rally with at least one shot.
C3_RallyIffHadRally ==
    FullyCoded =>
        (had_rally(TerminatingServe) <=>
            (Sequence.rally # None /\ Len(Sequence.rally[1].shots) > 0))

\* C4: a single-character first code that is neither a shortcut letter nor
\* a fault letter raises the parsing exception naming the character; no
\* serve is decoded, the second code is not read, nothing is constructed.
C4_UnknownSingleCharacter ==
    (SingleChar /\ FirstCode[1] \notin {"S", "R", "P", "Q"}
                /\ FirstCode[1] \notin FaultEnumValues) =>
        /\ Outcome = Raise("CodeParsingException", FirstCode)
        /\ call.result.serve_calls = << >>
        /\ call.result.rally_calls = << >>
        /\ ~call.result.second_read

C4_Witness ==
    /\ SingleChar
    /\ FirstCode = << "4" >>
    /\ call.first_code[1] = << "4", "\n" >>
    /\ call.second_code = Some(<< "f" >>)
    /\ Outcome.kind = "raise"
    /\ Outcome.msg = << "4" >>

\* C5: every ShotSequence that exists is not coded, lost outright, won
\* outright or has a first serve; the constructor given none of the four
\* fails its assertion; from_code never fails that assertion.
C5_NeverEmpty ==
    /\ (call.op # "none" /\ Returned) =>
          \/ Sequence.not_coded
          \/ Sequence.server_lost_outright
          \/ Sequence.server_won_outright
          \/ Sequence.first_serve # None
    /\ (call.op = "init" /\ ~call.init_args.not_coded
                         /\ ~call.init_args.server_lost_outright
                         /\ ~call.init_args.server_won_outright
                         /\ call.init_args.first_serve = None) =>
          Outcome = Raise("AssertionError", << >>)
    /\ Decoded => Outcome.exc # "AssertionError"

C5_Witness ==
    /\ call.op = "init"
    /\ call.init_args.first_serve = None
    /\ Outcome.kind = "raise"
    /\ Outcome.exc = "AssertionError"

\* C6 (as claimed): a second code given although the first serve did not
\* fault makes from_code fail with a parse error.
C6_SecondCodeRejected ==
    (/\ Decoded
     /\ call.result.serve_calls # << >>
     /\ Serve_from_code(call.result.serve_calls[1].code, Players.server,
                        TRUE).kind = "return"
     /\ ~was_fault(Serve_from_code(call.result.serve_calls[1].code,
                                   Players.server, TRUE).value[1].serve)
     /\ call.second_code # None
     /\ call.second_code[1] # << >>) =>
        (Outcome.kind = "raise" /\ Outcome.exc = "CodeParsingException")

\* C7 (as claimed): from_code, given a string as first code, fails only with
\* the parsing exception; so it does when the first serve was a fault and
\* there is no second code.
C7_FailuresAreParseErrors ==
    (Decoded /\ call.first_code # None /\ Outcome.kind = "raise") =>
        Outcome.exc = "CodeParsingException"

\* C8: a single fault letter that is no shortcut is decoded as a first serve
\* from '0' followed by the letter, and the decoding goes on as after any
\* faulted first serve; a shortcut letter, also one that is a fault letter
\* as well ('P'), is never normalized and never reaches the serve decoder:
\* the call returns the shortcut's shape without reading the second code.
C8_BareFaultLetter ==
    /\ (SingleChar /\ FirstCode[1] \in FaultEnumValues
                   /\ FirstCode[1] \notin {"S", "R", "P", "Q"}) =>
          /\ call.result.serve_calls # << >>
          /\ call.result.serve_calls[1] =
                 [code |-> << "0", FirstCode[1] >>, is_first |-> TRUE]
          /\ call.result.second_read
          /\ call.second_code # None =>
                /\ Len(call.result.serve_calls) = 2
                /\ call.result.serve_calls[2] =
                       [code |-> strip(call.second_code[1]),
                        is_first |-> FALSE]
          /\ Returned =>
                /\ Sequence.first_serve[1].raw_code = << "0", FirstCode[1] >>
                /\ Sequence.first_serve[1].is_first
                /\ Sequence.second_serve # None
    /\ (SingleChar /\ FirstCode[1] \in {"S", "R", "P", "Q"}) =>
          /\ call.result.serve_calls = << >>
          /\ call.result.rally_calls = << >>
          /\ ~call.result.second_read
          /\ Returned
          /\ Sequence.first_serve = None
          /\ Sequence.second_serve = None
          /\ Sequence.not_coded \/ Sequence.server_lost_outright
                \/ Sequence.server_won_outright

C8_Witness ==
    /\ SingleChar
    /\ FirstCode = << "d" >>
    /\ Returned
    /\ Sequence.first_serve[1].raw_code = << "0", "d" >>
    /\ Sequence.first_serve[1].fault_kind = "d"
    /\ Sequence.second_serve # None
    /\ Sequence.rally # None

\* ------------------------------------------------- the bulk loader's claim

RECURSIVE KeptRows(_, _)
\* The winners of the rows from i on whose score parses and has two sets.
KeptRows(rows, i) ==
    IF i > Len(rows) THEN << >>
    ELSE LET p == ParsedStringScore(rows[i].score)
             keep == p.kind = "return" /\ Len(rows[i].score) >= 2
         IN (IF keep THEN << rows[i].winner >> ELSE << >>)
            \o KeptRows(rows, i + 1)

\* The class of self defines calculate_stats and it returns on every row.
StatsComputed ==
    /\ gen.self = "subclass"
    /\ \A i \in 1..Len(frame.rows) : frame.rows[i].stats = "returns"

\* C9 (as claimed): where calculate_stats returns for every row, the
\* generator runs to the end of the rows, and what it has yielded by then is
\* one match for each row whose score parses and has at least two sets, in
\* the order of the rows.
C9_YieldsRemainingRows ==
    StatsComputed =>
        /\ gen.pc # "raised"
        /\ gen.pc = "exhausted" =>
              [k \in 1..Len(gen.yielded) |-> gen.yielded[k].p1]
                  = KeptRows(frame.rows, 1)

\* ------------------------------------------------- the caches' claim

\* C10 (as claimed): the average of a key is computed at most once, however
\* the calls of the two threads interleave.
C10_ComputedAtMostOnce ==
    /\ \A k \in TournamentKeys : computed.tournament_averages[k] <= 1
    /\ \A y \in Years : computed.tour_averages[y] <= 1

====
